---- MODULE Spec2Model ----
(***************************************************************************)
(* A model of skill-test-action (src/src/index.js): the run loop of main,  *)
(* runTest, the process supervisor spawnClaude with its event handlers,    *)
(* and the stream decoder parseStreamJson with extractTranscriptEntry and  *)
(* collectToolUses.                                                        *)
(***************************************************************************)
EXTENDS Integers, Sequences, FiniteSets, TLC

VARIABLES
    pc,          \* position of main: "glob", "load", "spawn", "await", "report", "returned", "done"
    nFiles,      \* testFiles.length, the number of manifests glob matched
    fileIdx,     \* index of the manifest the outer loop is at
    manifest,    \* the manifest loaded by yaml.load for the current file
    testIdx,     \* index of the test case the inner loop is at
    results,     \* results of the current manifest (with the captured text as a ghost field)
    allResults,  \* one record per completed manifest
    allPassed,   \* the all-passed flag of main
    exitCode,    \* process exit code, -1 while the process runs
    fatal,       \* what ended the run through main().catch or an early process.exit, "" if nothing
    procs,       \* one record per spawnClaude invocation: child, buffers, timer, promise
    dataLeft,    \* how many more 'data' events the children may emit
    pin,         \* harness: a captured text, a test case and the targets
    pout         \* harness: what parseStreamJson and runTest return on pin

vars == <<pc, nFiles, fileIdx, manifest, testIdx, results, allResults, allPassed,
          exitCode, fatal, procs, dataLeft, pin, pout>>

runVars == <<pc, nFiles, fileIdx, manifest, testIdx, results, allResults, allPassed,
             exitCode, fatal, procs, dataLeft>>

-----------------------------------------------------------------------------
(* Bounds of the model *)

MaxFiles == 2
MaxTests == 2
MaxData == 1
MaxLines == 2
MaxEvents == 2
MaxGap == 1
MaxDepth == 5

-----------------------------------------------------------------------------
(* JSON values as JSON.parse builds them, and the JavaScript operations the *)
(* decoder applies to them.                                                 *)

JUndef == [t |-> "undefined"]
JNull == [t |-> "null"]
JStr(s) == [t |-> "str", s |-> s]
JNum(n) == [t |-> "num", n |-> n]
JBool(b) == [t |-> "bool", b |-> b]
JArr(items) == [t |-> "arr", items |-> items]
\* fields: a sequence of [k |-> key, v |-> value], keys distinct, in insertion order
JObj(fields) == [t |-> "obj", fields |-> fields]
\* the text JSON.stringify gives for v, cut to 300 characters
JSer(v) == [t |-> "ser", v |-> v]

F(k, v) == [k |-> k, v |-> v]

\* ToBoolean
Truthy(v) ==
    CASE v.t = "undefined" -> FALSE
      [] v.t = "null" -> FALSE
      [] v.t = "str" -> v.s # ""
      [] v.t = "num" -> v.n # 0
      [] v.t = "bool" -> v.b
      [] OTHER -> TRUE

\* v.k for a v that is neither null nor undefined (for those the access throws)
Get(v, k) ==
    IF v.t = "obj" /\ \E i \in 1..Len(v.fields) : v.fields[i].k = k
    THEN v.fields[CHOOSE i \in 1..Len(v.fields) : v.fields[i].k = k].v
    ELSE JUndef

\* v?.k
OptGet(v, k) == IF v.t \in {"undefined", "null"} THEN JUndef ELSE Get(v, k)

\* v?.length
OptLength(v) ==
    CASE v.t = "arr" -> JNum(Len(v.items))
      [] v.t = "str" -> JNum(Len(v.s))
      [] v.t \in {"undefined", "null"} -> JUndef
      [] OTHER -> Get(v, "length")

\* a || b
Or(a, b) == IF Truthy(a) THEN a ELSE b

\* v === 'lit'
IsStr(v, lit) == v.t = "str" /\ v.s = lit

isPlainObject(val) == val.t = "obj"

\* Object.values(obj) of an object or an array
ObjectValues(obj) ==
    IF obj.t = "arr" THEN obj.items
    ELSE [i \in 1..Len(obj.fields) |-> obj.fields[i].v]

-----------------------------------------------------------------------------
(* The text a child writes.  A text is a sequence of atoms: a newline, a   *)
(* blank, a piece of text that is no JSON, the serialisation of an event   *)
(* in one piece, or its first or second half when a write was split.       *)

NL == [a |-> "nl", e |-> ""]
SP == [a |-> "sp", e |-> ""]
BAD == [a |-> "bad", e |-> ""]
Json(e) == [a |-> "json", e |-> e]
FirstHalf(e) == [a |-> "head", e |-> e]
SecondHalf(e) == [a |-> "tail", e |-> e]

ToolUse(name, input) ==
    JObj(<<F("type", JStr("tool_use")), F("name", JStr(name)), F("input", input)>>)

Assistant(content) ==
    JObj(<<F("type", JStr("assistant")), F("message", JObj(<<F("content", content)>>))>>)

\* the JSON value each serialised event stands for
EventValue(e) ==
    CASE e = "init" ->
            JObj(<<F("type", JStr("system")), F("subtype", JStr("init")),
                   F("model", JStr("haiku")),
                   F("tools", JArr(<<JStr("Read"), JStr("Skill")>>)),
                   F("skills", JArr(<<JStr("s1")>>))>>)
      [] e = "skill" ->
            Assistant(JArr(<<JObj(<<F("type", JStr("text")), F("text", JStr("ok"))>>),
                             ToolUse("Skill", JObj(<<F("skill", JStr("s1"))>>))>>))
      [] e = "task" ->
            Assistant(JArr(<<ToolUse("Task", JObj(<<F("subagent_type", JStr("a1"))>>))>>))
      [] e = "read" ->
            Assistant(JArr(<<ToolUse("Read", JObj(<<F("file_path", JStr("f"))>>)),
                             ToolUse("Read", JObj(<<F("file_path", JStr("g"))>>))>>))
      [] e = "toolresult" ->
            Assistant(JArr(<<JObj(<<F("type", JStr("tool_result")),
                                    F("content", JArr(<<ToolUse("Grep", JNull)>>))>>)>>))
      [] e = "nullblock" -> Assistant(JArr(<<JNull>>))
      [] e = "numcontent" -> Assistant(JNum(5))
      [] e = "objcontent" -> Assistant(JObj(<<F("type", JStr("text"))>>))
      [] e = "strcontent" -> Assistant(JStr("hi"))
      [] e = "scalarblocks" -> Assistant(JArr(<<JNum(1), JStr("x"), JBool(TRUE), JArr(<<>>)>>))
      [] e = "null" -> JNull
      [] e = "number" -> JNum(7)
      [] e = "array" -> JArr(<<ToolUse("Bash", JStr("ls")), JArr(<<ToolUse("Edit", JNull)>>)>>)
      [] e = "notype" -> JObj(<<F("message", JStr("hello"))>>)
      [] e = "result" ->
            JObj(<<F("type", JStr("result")), F("total_cost_usd", JNum(1)),
                   F("num_turns", JNum(2)), F("stop_reason", JStr("end_turn")),
                   F("result", JStr("done"))>>)
      [] e = "othertype" ->
            JObj(<<F("type", JStr("user")),
                   F("wrapper", JObj(<<F("inner", ToolUse("Write", JObj(<<>>)))>>))>>)
      [] e = "objname" ->
            Assistant(JArr(<<
                JObj(<<F("type", JStr("tool_use")),
                       F("name", JObj(<<F("tool", JStr("Read"))>>))>>),
                JObj(<<F("type", JStr("tool_use")),
                       F("name", JObj(<<F("tool", JStr("Read"))>>))>>)>>))

EventIds ==
    {"init", "skill", "task", "read", "toolresult", "nullblock", "numcontent",
     "objcontent", "strcontent", "scalarblocks", "null", "number", "array",
     "notype", "result", "othertype", "objname"}

\* stdout.split('\n')
RECURSIVE SplitFrom(_, _, _, _)
SplitFrom(text, i, cur, acc) ==
    IF i > Len(text) THEN Append(acc, cur)
    ELSE IF text[i].a = "nl" THEN SplitFrom(text, i + 1, <<>>, Append(acc, cur))
    ELSE SplitFrom(text, i + 1, Append(cur, text[i]), acc)

Split(text) == SplitFrom(text, 1, <<>>, <<>>)

\* line.trim()
RECURSIVE TrimLeft(_)
TrimLeft(line) ==
    IF line # <<>> /\ Head(line).a = "sp" THEN TrimLeft(Tail(line)) ELSE line

RECURSIVE TrimRight(_)
TrimRight(line) ==
    IF line # <<>> /\ line[Len(line)].a = "sp"
    THEN TrimRight(SubSeq(line, 1, Len(line) - 1)) ELSE line

Trim(line) == TrimRight(TrimLeft(line))

\* JSON.parse(trimmed): ok = FALSE stands for the SyntaxError it throws
JSONParse(trimmed) ==
    IF Len(trimmed) = 1 /\ trimmed[1].a = "json"
    THEN [ok |-> TRUE, value |-> EventValue(trimmed[1].e)]
    ELSE IF Len(trimmed) = 2 /\ trimmed[1].a = "head" /\ trimmed[2].a = "tail"
            /\ trimmed[1].e = trimmed[2].e
    THEN [ok |-> TRUE, value |-> EventValue(trimmed[1].e)]
    ELSE [ok |-> FALSE, value |-> JUndef]

-----------------------------------------------------------------------------
(* extractTranscriptEntry, collectToolUses, parseStreamJson                *)

ResultTextLimit == 300

\* str.slice(0, n) of a string value
Slice(v, n) == IF Len(v.s) <= n THEN v ELSE [t |-> "cut", v |-> v, n |-> n]

\* the entries one block of message.content adds (the block is not null)
BlockEntries(block) ==
    (IF IsStr(Get(block, "type"), "text") /\ Truthy(Get(block, "text"))
     THEN <<[type |-> "text", text |-> Get(block, "text")]>> ELSE <<>>)
    \o
    (IF IsStr(Get(block, "type"), "tool_use")
     THEN <<[type |-> "tool_use", name |-> Get(block, "name"),
             input |-> Get(block, "input")]>> ELSE <<>>)
    \o
    (IF IsStr(Get(block, "type"), "tool_result")
     THEN <<[type |-> "tool_result",
             text |-> IF Get(block, "content").t = "str"
                      THEN Get(block, "content")
                      ELSE JSer(Or(Get(block, "content"), JStr("")))]>> ELSE <<>>)

\* for (const block of content) over an array: block.type throws on a null block
RECURSIVE BlocksFrom(_, _, _)
BlocksFrom(items, i, acc) ==
    IF i > Len(items) THEN [threw |-> FALSE, entries |-> acc]
    ELSE IF items[i].t = "null" THEN [threw |-> TRUE, entries |-> acc]
    ELSE BlocksFrom(items, i + 1, acc \o BlockEntries(items[i]))

\* for (const block of content): a string iterates its characters, which have
\* no type; any other value that is no array is not iterable
ContentEntries(content) ==
    CASE content.t = "arr" -> BlocksFrom(content.items, 1, <<>>)
      [] content.t = "str" -> [threw |-> FALSE, entries |-> <<>>]
      [] OTHER -> [threw |-> TRUE, entries |-> <<>>]

\* the entries extractTranscriptEntry pushes for one event, or that it threw
extractTranscriptEntry(event) ==
    IF ~Truthy(event) \/ ~Truthy(Get(event, "type"))
    THEN [threw |-> FALSE, entries |-> <<>>]
    ELSE IF IsStr(Get(event, "type"), "system") /\ IsStr(Get(event, "subtype"), "init")
    THEN [threw |-> FALSE,
          entries |-> <<[type |-> "init",
                         model |-> Or(Get(event, "model"), JStr("?")),
                         toolCount |-> Or(OptLength(Get(event, "tools")), JNum(0)),
                         skillCount |-> Or(OptLength(Get(event, "skills")), JNum(0)),
                         skills |-> Or(Get(event, "skills"), JArr(<<>>)),
                         tools |-> Or(Get(event, "tools"), JArr(<<>>))]>>]
    ELSE IF IsStr(Get(event, "type"), "assistant")
            /\ Truthy(OptGet(Get(event, "message"), "content"))
    THEN LET c == ContentEntries(OptGet(Get(event, "message"), "content"))
         IN  IF c.threw THEN c
             ELSE [threw |-> FALSE,
                   entries |-> c.entries \o
                       (IF Truthy(Get(event, "error"))
                        THEN <<[type |-> "error", text |-> Get(event, "error")]>>
                        ELSE <<>>)]
    ELSE IF IsStr(Get(event, "type"), "result")
    THEN [threw |-> FALSE,
          entries |-> <<[type |-> "result",
                         cost |-> Get(event, "total_cost_usd"),
                         turns |-> Get(event, "num_turns"),
                         stopReason |-> Get(event, "stop_reason"),
                         resultText |-> IF Get(event, "result").t = "str"
                                        THEN Slice(Get(event, "result"), ResultTextLimit)
                                        ELSE JStr("")]>>]
    ELSE [threw |-> FALSE, entries |-> <<>>]

NoUses == [tools |-> <<>>, skills |-> <<>>, agents |-> <<>>]

JoinUses(a, b) ==
    [tools |-> a.tools \o b.tools, skills |-> a.skills \o b.skills,
     agents |-> a.agents \o b.agents]

\* what the test at the head of collectToolUses pushes for obj itself
OwnUses(obj) ==
    IF IsStr(Get(obj, "type"), "tool_use") /\ Truthy(Get(obj, "name"))
    THEN [tools |-> <<Get(obj, "name")>>,
          skills |-> IF IsStr(Get(obj, "name"), "Skill")
                        /\ Truthy(OptGet(Get(obj, "input"), "skill"))
                     THEN <<OptGet(Get(obj, "input"), "skill")>> ELSE <<>>,
          agents |-> IF IsStr(Get(obj, "name"), "Task")
                        /\ Truthy(OptGet(Get(obj, "input"), "subagent_type"))
                     THEN <<OptGet(Get(obj, "input"), "subagent_type")>> ELSE <<>>]
    ELSE NoUses

\* the values the loop over Object.values(obj) recurses into, in order: the
\* items of a value that is an array, a value that is a plain object
RECURSIVE RecurseInto(_, _)
RecurseInto(values, i) ==
    IF i > Len(values) THEN <<>>
    ELSE (CASE values[i].t = "arr" -> values[i].items
            [] isPlainObject(values[i]) -> <<values[i]>>
            [] OTHER -> <<>>) \o RecurseInto(values, i + 1)

\* the names collectToolUses pushes on the three lists, in push order
RECURSIVE collectToolUses(_)
RECURSIVE CollectEach(_, _)
\* variant: the recursion does not go into an object that matched
collectToolUsesStopAtMatch(obj) ==
    IF ~Truthy(obj) \/ obj.t \notin {"arr", "obj"} THEN NoUses
    ELSE IF OwnUses(obj) # NoUses THEN OwnUses(obj)
    ELSE CollectEach(RecurseInto(ObjectValues(obj), 1), 1)

collectToolUses(obj) ==
    IF ~Truthy(obj) \/ obj.t \notin {"arr", "obj"} THEN NoUses
    ELSE JoinUses(OwnUses(obj), CollectEach(RecurseInto(ObjectValues(obj), 1), 1))

CollectEach(targets, i) ==
    IF i > Len(targets) THEN NoUses
    ELSE JoinUses(collectToolUses(targets[i]), CollectEach(targets, i + 1))

\* SameValueZero, the equality of Set and of Array.prototype.includes: two
\* objects built by separate parses are never the same object
SameValueZero(a, b) == a.t \notin {"arr", "obj"} /\ a = b

\* [...new Set(xs)]
RECURSIVE DedupFrom(_, _, _)
DedupFrom(xs, i, acc) ==
    IF i > Len(xs) THEN acc
    ELSE IF \E j \in 1..Len(acc) : SameValueZero(acc[j], xs[i])
    THEN DedupFrom(xs, i + 1, acc)
    ELSE DedupFrom(xs, i + 1, Append(acc, xs[i]))

Dedup(xs) == DedupFrom(xs, 1, <<>>)

\* xs.includes(name) for a string name
Includes(xs, name) == \E i \in 1..Len(xs) : SameValueZero(xs[i], JStr(name))

\* variant: a line that does not parse ends the loop
RECURSIVE ParseLinesUntilBad(_, _, _)
ParseLinesUntilBad(lines, i, acc) ==
    IF i > Len(lines) \/ acc.threw THEN acc
    ELSE LET trimmed == Trim(lines[i])
             parsed == JSONParse(trimmed)
         IN  IF trimmed = <<>> THEN ParseLinesUntilBad(lines, i + 1, acc)
             ELSE IF ~parsed.ok THEN acc
             ELSE LET t == extractTranscriptEntry(parsed.value)
                      u == IF t.threw THEN NoUses ELSE collectToolUses(parsed.value)
                  IN  ParseLinesUntilBad(lines, i + 1,
                          [threw |-> t.threw,
                           transcript |-> acc.transcript \o t.entries,
                           uses |-> JoinUses(acc.uses, u)])

\* the loop of parseStreamJson over the lines
RECURSIVE ParseLines(_, _, _)
ParseLines(lines, i, acc) ==
    IF i > Len(lines) \/ acc.threw THEN acc
    ELSE LET trimmed == Trim(lines[i])
             parsed == JSONParse(trimmed)
         IN  IF trimmed = <<>> \/ ~parsed.ok THEN ParseLines(lines, i + 1, acc)
             ELSE LET t == extractTranscriptEntry(parsed.value)
                      u == IF t.threw THEN NoUses ELSE collectToolUses(parsed.value)
                  IN  ParseLines(lines, i + 1,
                          [threw |-> t.threw,
                           transcript |-> acc.transcript \o t.entries,
                           uses |-> JoinUses(acc.uses, u)])

\* what parseStreamJson(stdout) returns; threw = TRUE when it throws instead
parseStreamJson(stdout) ==
    LET r == ParseLines(Split(stdout), 1,
                        [threw |-> FALSE, transcript |-> <<>>, uses |-> NoUses])
    IN  IF r.threw
        THEN [threw |-> TRUE, skillsInvoked |-> <<>>, toolsUsed |-> <<>>,
              agentsInvoked |-> <<>>, transcript |-> <<>>]
        ELSE [threw |-> FALSE,
              skillsInvoked |-> Dedup(r.uses.skills),
              toolsUsed |-> Dedup(r.uses.tools),
              agentsInvoked |-> Dedup(r.uses.agents),
              transcript |-> r.transcript]

-----------------------------------------------------------------------------
(* runTest: the verdict, and logTranscript                                 *)

NoError == [why |-> "null", code |-> 0, stderr |-> <<>>]

\* the destructuring of test at the head of runTest: expected_tools = [] when
\* the test case has no such key
WithDefaults(test) ==
    IF "expected_tools" \in DOMAIN test THEN test
    ELSE [id |-> test.id, should_trigger |-> test.should_trigger, expected_tools |-> <<>>]

\* variant: the tools used must be exactly the expected ones
EveryExpectedAndNoOther(expected_tools, toolsUsed) ==
    /\ \A k \in 1..Len(expected_tools) :
          \E i \in 1..Len(toolsUsed) : toolsUsed[i] = JStr(expected_tools[k])
    /\ \A i \in 1..Len(toolsUsed) :
          \E k \in 1..Len(expected_tools) : toolsUsed[i] = JStr(expected_tools[k])

\* expected_tools.every(t => toolsUsed.includes(t))
EveryExpected(expected_tools, toolsUsed) ==
    \A k \in 1..Len(expected_tools) : Includes(toolsUsed, expected_tools[k])

\* variant: pass as it was before the agent axis existed
TestResultNoAgentAxis(test, triggered, agentTriggered, skillPass, agentPass, toolsPass, parsed, error) ==
    [threw |-> parsed.threw,
     id |-> test.id,
     should_trigger |-> test.should_trigger,
     triggered |-> triggered,
     agentTriggered |-> agentTriggered,
     skillPass |-> skillPass,
     agentPass |-> agentPass,
     toolsPass |-> toolsPass,
     expected_tools |-> test.expected_tools,
     toolsUsed |-> parsed.toolsUsed,
     skillsInvoked |-> parsed.skillsInvoked,
     agentsInvoked |-> parsed.agentsInvoked,
     pass |-> skillPass /\ toolsPass,
     error |-> error,
     transcript |-> parsed.transcript]

\* the TestResult runTest returns, given what parseStreamJson returned
TestResult(test, triggered, agentTriggered, skillPass, agentPass, toolsPass, parsed, error) ==
    [threw |-> parsed.threw,
     id |-> test.id,
     should_trigger |-> test.should_trigger,
     triggered |-> triggered,
     agentTriggered |-> agentTriggered,
     skillPass |-> skillPass,
     agentPass |-> agentPass,
     toolsPass |-> toolsPass,
     expected_tools |-> test.expected_tools,
     toolsUsed |-> parsed.toolsUsed,
     skillsInvoked |-> parsed.skillsInvoked,
     agentsInvoked |-> parsed.agentsInvoked,
     pass |-> skillPass /\ agentPass /\ toolsPass,
     error |-> error,
     transcript |-> parsed.transcript]

\* variant: an axis without a target is judged like one with a target
VerdictsAbsentJudged(test, targetSkill, targetAgent, triggered, agentTriggered, parsed, error) ==
    TestResult(test, triggered, agentTriggered,
               triggered = test.should_trigger,
               agentTriggered = test.should_trigger,
               IF Len(test.expected_tools) > 0 /\ test.should_trigger
               THEN EveryExpected(test.expected_tools, parsed.toolsUsed)
               ELSE TRUE,
               parsed, error)

\* the three verdicts, given triggered and agentTriggered
Verdicts(test, targetSkill, targetAgent, triggered, agentTriggered, parsed, error) ==
    TestResult(test, triggered, agentTriggered,
               IF targetSkill # "" THEN triggered = test.should_trigger ELSE TRUE,
               IF targetAgent # "" THEN agentTriggered = test.should_trigger ELSE TRUE,
               IF Len(test.expected_tools) > 0 /\ test.should_trigger
               THEN EveryExpected(test.expected_tools, parsed.toolsUsed)
               ELSE TRUE,
               parsed, error)

\* runTest after the try/catch around spawnClaude, on the captured stdout
Evaluate(test, targetSkill, targetAgent, parsed, error) ==
    Verdicts(test, targetSkill, targetAgent,
             IF targetSkill # "" THEN Includes(parsed.skillsInvoked, targetSkill) ELSE FALSE,
             IF targetAgent # "" THEN Includes(parsed.agentsInvoked, targetAgent) ELSE FALSE,
             parsed, error)

\* variant: after a failure runTest evaluates no output at all
runTestDropsOutput(test, targetSkill, targetAgent, outcome) ==
    IF outcome.state = "resolved"
    THEN Evaluate(WithDefaults(test), targetSkill, targetAgent,
                  parseStreamJson(outcome.stdout), NoError)
    ELSE Evaluate(WithDefaults(test), targetSkill, targetAgent,
                  parseStreamJson(<<>>), outcome.message)

\* runTest from the point where spawnClaude's promise has settled; outcome is
\* the settled promise.  threw = TRUE when parseStreamJson throws and runTest
\* with it.  A target of "" stands for a manifest without that key.
runTest(test, targetSkill, targetAgent, outcome) ==
    Evaluate(WithDefaults(test), targetSkill, targetAgent, parseStreamJson(outcome.stdout),
             IF outcome.state = "resolved" THEN NoError ELSE outcome.message)

TextShown == 200

\* v.length > 0
LengthPositive(v) == OptLength(v).t = "num" /\ OptLength(v).n > 0

\* truncate(str, len) throws when str.length <= len is false and str has no slice
TruncateThrows(str, len) ==
    /\ str.t \notin {"str", "arr"}
    /\ ~(OptLength(str).t = "num" /\ OptLength(str).n <= len)

\* whether logTranscript throws on one entry of the transcript
EntryLogThrows(entry) ==
    CASE entry.type = "init" -> LengthPositive(entry.skills) /\ entry.skills.t # "arr"
      [] entry.type = "text" -> TruncateThrows(entry.text, TextShown)
      [] entry.type = "result" -> entry.cost.t \notin {"undefined", "null", "num"}
      [] OTHER -> FALSE

logTranscriptThrows(transcript) ==
    \E k \in 1..Len(transcript) : EntryLogThrows(transcript[k])

-----------------------------------------------------------------------------
(* spawnClaude: the child, its buffers, the timer and the promise          *)

Pending ==
    [state |-> "pending", message |-> NoError, stdout |-> <<>>, stderr |-> <<>>]

\* an exit status: signal = TRUE is a child ended by a signal, whose code is null
Exited(code) == [code |-> code, signal |-> FALSE, closed |-> TRUE]
Signalled == [code |-> 0, signal |-> TRUE, closed |-> TRUE]
NotClosed == [code |-> 0, signal |-> FALSE, closed |-> FALSE]

\* the closure of one spawnClaude call right after the executor has run.
\* child: "running", "failed" (it could not be started) or "closed";
\* status: the exit status 'close' carried
NewProc(started) ==
    [child |-> IF started THEN "running" ELSE "failed",
     status |-> NotClosed,
     errorSent |-> FALSE,
     stdout |-> <<>>,
     stderr |-> <<>>,
     timer |-> "pending",
     killed |-> FALSE,
     promise |-> Pending]

\* resolve or reject of the promise: only the first call settles it
Settle(p, outcome) ==
    [p EXCEPT !.promise = IF p.promise.state = "pending" THEN outcome ELSE @]

resolve(p) ==
    Settle(p, [state |-> "resolved", message |-> NoError,
               stdout |-> p.stdout, stderr |-> p.stderr])

\* variant: a later call replaces the outcome an earlier call delivered
rejectWithOutputAgain(p, message) ==
    [p EXCEPT !.promise = [state |-> "rejected", message |-> message,
                           stdout |-> p.stdout, stderr |-> p.stderr]]

rejectWithOutput(p, message) ==
    Settle(p, [state |-> "rejected", message |-> message,
               stdout |-> p.stdout, stderr |-> p.stderr])

clearTimeout(p) == [p EXCEPT !.timer = IF @ = "pending" THEN "cleared" ELSE @]

\* proc.stdout.on('data')
OnStdout(p, chunk) == [p EXCEPT !.stdout = @ \o chunk]

\* proc.stderr.on('data')
OnStderr(p, chunk) == [p EXCEPT !.stderr = @ \o chunk]

\* variant: the timeout rejects with a bare error that carries no output
OnTimeoutBareError(p) ==
    Settle([p EXCEPT !.timer = "fired", !.killed = TRUE],
           [state |-> "rejected",
            message |-> [why |-> "timeout", code |-> 0, stderr |-> <<>>],
            stdout |-> <<>>, stderr |-> <<>>])

\* the timer's callback
OnTimeout(p) ==
    rejectWithOutput([p EXCEPT !.timer = "fired", !.killed = TRUE],
                     [why |-> "timeout", code |-> 0, stderr |-> <<>>])

\* proc.on('close')
OnClose(p, status) ==
    LET q == clearTimeout([p EXCEPT !.child = "closed", !.status = status])
    IN  IF ~status.signal /\ status.code # 0
        THEN rejectWithOutput(q, [why |-> "exit", code |-> status.code,
                                  stderr |-> q.stderr])
        ELSE resolve(q)

\* variant: the 'error' handler leaves the timer running
OnErrorKeepsTimer(p) ==
    rejectWithOutput([p EXCEPT !.errorSent = TRUE],
                     [why |-> "spawn", code |-> 0, stderr |-> <<>>])

\* proc.on('error')
OnError(p) ==
    rejectWithOutput(clearTimeout([p EXCEPT !.errorSent = TRUE]),
                     [why |-> "spawn", code |-> 0, stderr |-> <<>>])

-----------------------------------------------------------------------------
(* The inputs of a run: the manifests on disk and what the children write  *)

\* the test cases of the manifests of a run
TestCases == {[should_trigger |-> TRUE, expected_tools |-> <<"Skill">>]}

\* the tests arrays of at most n test cases; a test's id is its position
TestLists(n) ==
    UNION {{[k \in 1..m |-> [id |-> k, should_trigger |-> f[k].should_trigger,
                             expected_tools |-> f[k].expected_tools]] :
              f \in [1..m -> TestCases]} : m \in 0..n}

\* the targets of the manifests of a run
Targets == {[skill |-> "s1", agent |-> ""]}

\* what yaml.load gives for a matched file, with at most n test cases;
\* hasTests = FALSE is a manifest without the tests key
Manifests(n) ==
    {[hasTests |-> TRUE, skill |-> tg.skill, agent |-> tg.agent, tests |-> ts] :
        tg \in Targets, ts \in TestLists(n)}
    \cup {[hasTests |-> FALSE, skill |-> "s1", agent |-> "", tests |-> <<>>]}

NoManifest == [hasTests |-> FALSE, skill |-> "", agent |-> "", tests |-> <<>>]

\* the events a child of the run writes, and those it writes in two pieces
StreamEvents == {"init", "skill", "nullblock"}
SplitEvents == {"skill"}

\* what the next 'data' event of stdout can carry: a whole line, the first
\* half of a line, or the rest of the line whose first half came before
StdoutChunks(p) ==
    IF p.stdout # <<>> /\ p.stdout[Len(p.stdout)].a = "head"
    THEN {<<SecondHalf(p.stdout[Len(p.stdout)].e), NL>>}
    ELSE {<<Json(e), NL>> : e \in StreamEvents}
         \cup {<<FirstHalf(e)>> : e \in SplitEvents}

StderrChunks == {<<BAD>>}

\* the exit statuses a started child can close with
CloseStatuses == {Exited(0), Exited(1), Signalled}

\* the status 'close' carries after a failed start: the negated errno
SpawnFailedStatus == Exited(-2)

\* the harness of the decoder and the evaluator when it is not in use
NoInput == [text |-> <<>>]
Idle == [stage |-> "idle"]

-----------------------------------------------------------------------------
(* main                                                                    *)

Init ==
    /\ pc = "glob"
    /\ nFiles = 0
    /\ fileIdx = 0
    /\ manifest = NoManifest
    /\ testIdx = 0
    /\ results = <<>>
    /\ allResults = <<>>
    /\ allPassed = TRUE
    /\ exitCode = -1
    /\ fatal = ""
    /\ procs = <<>>
    /\ dataLeft = MaxData
    /\ pin = NoInput
    /\ pout = Idle

\* process.exit(1), from main or from main().catch
Die(why) ==
    /\ pc' = "done"
    /\ exitCode' = 1
    /\ fatal' = why

\* const testFiles = await glob(testFilePattern)
Glob ==
    /\ pc = "glob"
    /\ \E n \in 0..MaxFiles :
          /\ nFiles' = n
          /\ IF n = 0
             THEN Die("nomatch") /\ UNCHANGED fileIdx
             ELSE pc' = "load" /\ fileIdx' = 1 /\ UNCHANGED <<exitCode, fatal>>
    /\ UNCHANGED <<manifest, testIdx, results, allResults, allPassed, procs,
                   dataLeft, pin, pout>>

\* the end of the inner loop: allResults.push, then the next file or the report;
\* results goes out of scope
EndOfManifest(m, rs) ==
    /\ results' = <<>>
    /\ allResults' = Append(allResults,
                        [targetSkill |-> m.skill, targetAgent |-> m.agent, results |-> rs])
    /\ IF fileIdx < nFiles
       THEN pc' = "load" /\ fileIdx' = fileIdx + 1
       ELSE pc' = "report" /\ UNCHANGED fileIdx

\* the head of the outer loop: yaml.load, the destructuring, tests.length
Load ==
    /\ pc = "load"
    /\ \E m \in Manifests(MaxTests - Len(procs)) :
          IF ~m.hasTests
          THEN /\ Die("manifest")
               /\ UNCHANGED <<manifest, testIdx, results, allResults, fileIdx>>
          ELSE /\ manifest' = m
               /\ UNCHANGED <<exitCode, fatal>>
               /\ IF Len(m.tests) = 0
                  THEN EndOfManifest(m, <<>>) /\ UNCHANGED testIdx
                  ELSE /\ pc' = "spawn"
                       /\ testIdx' = 1
                       /\ results' = <<>>
                       /\ UNCHANGED <<allResults, fileIdx>>
    /\ UNCHANGED <<nFiles, allPassed, procs, dataLeft, pin, pout>>

\* runTest up to its await: spawnClaude starts the child and the timer
Spawn ==
    /\ pc = "spawn"
    /\ \E started \in BOOLEAN : procs' = Append(procs, NewProc(started))
    /\ pc' = "await"
    /\ UNCHANGED <<nFiles, fileIdx, manifest, testIdx, results, allResults, allPassed,
                   exitCode, fatal, dataLeft, pin, pout>>

Current == Len(procs)

\* the event loop dispatches the next event only when no continuation of main
\* is ready to run and the process has not exited
Dispatching ==
    \/ pc = "await" /\ procs[Current].promise.state = "pending"
    \/ pc = "returned"

StdoutData(i) ==
    /\ Dispatching
    /\ procs[i].child = "running"
    /\ dataLeft > 0
    /\ \E chunk \in StdoutChunks(procs[i]) :
          procs' = [procs EXCEPT ![i] = OnStdout(@, chunk)]
    /\ dataLeft' = dataLeft - 1
    /\ UNCHANGED <<pc, nFiles, fileIdx, manifest, testIdx, results, allResults,
                   allPassed, exitCode, fatal, pin, pout>>

StderrData(i) ==
    /\ Dispatching
    /\ procs[i].child = "running"
    /\ dataLeft > 0
    /\ \E chunk \in StderrChunks :
          procs' = [procs EXCEPT ![i] = OnStderr(@, chunk)]
    /\ dataLeft' = dataLeft - 1
    /\ UNCHANGED <<pc, nFiles, fileIdx, manifest, testIdx, results, allResults,
                   allPassed, exitCode, fatal, pin, pout>>

\* the timer fires; after a failed start the 'error' event comes first
Timeout(i) ==
    /\ Dispatching
    /\ procs[i].timer = "pending"
    /\ ~(procs[i].child = "failed" /\ ~procs[i].errorSent)
    /\ procs' = [procs EXCEPT ![i] = OnTimeout(@)]
    /\ UNCHANGED <<pc, nFiles, fileIdx, manifest, testIdx, results, allResults,
                   allPassed, exitCode, fatal, dataLeft, pin, pout>>

\* the child has ended and its pipes are closed: 'close'
Close(i) ==
    /\ Dispatching
    /\ \/ /\ procs[i].child = "running"
          /\ \E status \in CloseStatuses :
                procs' = [procs EXCEPT ![i] = OnClose(@, status)]
       \/ /\ procs[i].child = "failed"
          /\ procs[i].errorSent
          /\ procs' = [procs EXCEPT ![i] = OnClose(@, SpawnFailedStatus)]
    /\ UNCHANGED <<pc, nFiles, fileIdx, manifest, testIdx, results, allResults,
                   allPassed, exitCode, fatal, dataLeft, pin, pout>>

\* the child could not be started: 'error'
Error(i) ==
    /\ Dispatching
    /\ procs[i].child = "failed"
    /\ ~procs[i].errorSent
    /\ procs' = [procs EXCEPT ![i] = OnError(@)]
    /\ UNCHANGED <<pc, nFiles, fileIdx, manifest, testIdx, results, allResults,
                   allPassed, exitCode, fatal, dataLeft, pin, pout>>

\* variant: the flag is set from the last result alone
AfterRunTestLastWins(r) ==
    IF r.threw
    THEN /\ Die("throw")
         /\ UNCHANGED <<results, allPassed, testIdx, allResults, fileIdx>>
    ELSE /\ allPassed' = r.pass
         /\ IF logTranscriptThrows(r.transcript)
            THEN /\ Die("throw")
                 /\ results' = Append(results, r)
                 /\ UNCHANGED <<testIdx, allResults, fileIdx>>
            ELSE /\ UNCHANGED <<exitCode, fatal>>
                 /\ IF testIdx < Len(manifest.tests)
                    THEN /\ pc' = "spawn"
                         /\ testIdx' = testIdx + 1
                         /\ results' = Append(results, r)
                         /\ UNCHANGED <<allResults, fileIdx>>
                    ELSE /\ EndOfManifest(manifest, Append(results, r))
                         /\ UNCHANGED testIdx

\* the loop body of main after runTest has returned r (or thrown)
AfterRunTest(r) ==
    IF r.threw
    THEN /\ Die("throw")
         /\ UNCHANGED <<results, allPassed, testIdx, allResults, fileIdx>>
    ELSE /\ allPassed' = (allPassed /\ r.pass)
         /\ IF logTranscriptThrows(r.transcript)
            THEN /\ Die("throw")
                 /\ results' = Append(results, r)
                 /\ UNCHANGED <<testIdx, allResults, fileIdx>>
            ELSE /\ UNCHANGED <<exitCode, fatal>>
                 /\ IF testIdx < Len(manifest.tests)
                    THEN /\ pc' = "spawn"
                         /\ testIdx' = testIdx + 1
                         /\ results' = Append(results, r)
                         /\ UNCHANGED <<allResults, fileIdx>>
                    ELSE /\ EndOfManifest(manifest, Append(results, r))
                         /\ UNCHANGED testIdx

\* variant: every iteration of the inner loop runs the first test case
ResumeFirstTest ==
    /\ pc = "await"
    /\ procs[Current].promise.state # "pending"
    /\ AfterRunTest(runTest(manifest.tests[1], manifest.skill, manifest.agent,
                            procs[Current].promise))
    /\ UNCHANGED <<nFiles, manifest, procs, dataLeft, pin, pout>>

\* the promise has settled: the rest of runTest and of the loop body in main
Resume ==
    /\ pc = "await"
    /\ procs[Current].promise.state # "pending"
    /\ AfterRunTest(runTest(manifest.tests[testIdx], manifest.skill, manifest.agent,
                            procs[Current].promise))
    /\ UNCHANGED <<nFiles, manifest, procs, dataLeft, pin, pout>>

\* formatSummary, the results file, and process.exit(1) unless all passed
Report ==
    /\ pc = "report"
    /\ IF ~allPassed
       THEN pc' = "done" /\ exitCode' = 1
       ELSE pc' = "returned" /\ UNCHANGED exitCode
    /\ UNCHANGED <<nFiles, fileIdx, manifest, testIdx, results, allResults, allPassed,
                   fatal, procs, dataLeft, pin, pout>>

\* main has returned: the process ends with code 0 once no child keeps the
\* event loop alive
ExitNatural ==
    /\ pc = "returned"
    /\ \A i \in 1..Len(procs) : procs[i].child = "closed"
    /\ pc' = "done"
    /\ exitCode' = 0
    /\ UNCHANGED <<nFiles, fileIdx, manifest, testIdx, results, allResults, allPassed,
                   fatal, procs, dataLeft, pin, pout>>

Next ==
    \/ Glob
    \/ Load
    \/ Spawn
    \/ \E i \in 1..Len(procs) : StdoutData(i)
    \/ \E i \in 1..Len(procs) : StderrData(i)
    \/ \E i \in 1..Len(procs) : Timeout(i)
    \/ \E i \in 1..Len(procs) : Close(i)
    \/ \E i \in 1..Len(procs) : Error(i)
    \/ Resume
    \/ Report
    \/ ExitNatural

Spec == Init /\ [][Next]_vars

-----------------------------------------------------------------------------
(* The decoder and the evaluator on their own: parseStreamJson and runTest *)
(* applied to captured texts, test cases and targets drawn from bounded    *)
(* sets.                                                                   *)

\* the lines of a captured text
Lines ==
    {<<>>, <<SP>>, <<BAD>>, <<SP, Json("skill"), SP>>, <<FirstHalf("skill")>>,
     <<FirstHalf("read"), SecondHalf("read")>>}
    \cup {<<Json(e)>> : e \in EventIds}

\* the lines joined by newlines
RECURSIVE JoinLines(_, _)
JoinLines(ls, i) ==
    IF i > Len(ls) THEN <<>>
    ELSE ls[i] \o (IF i < Len(ls) THEN <<NL>> ELSE <<>>) \o JoinLines(ls, i + 1)

Texts == UNION {{JoinLines(ls, 1) : ls \in [1..n -> Lines]} : n \in 0..MaxLines}

EvalTests ==
    {[id |-> 1, should_trigger |-> st, expected_tools |-> et] :
        st \in BOOLEAN, et \in {<<>>, <<"Read">>, <<"Read", "Bash">>}}
    \cup {[id |-> 1, should_trigger |-> TRUE]}

InitPure ==
    /\ pc = "harness"
    /\ nFiles = 0
    /\ fileIdx = 0
    /\ manifest = NoManifest
    /\ testIdx = 0
    /\ results = <<>>
    /\ allResults = <<>>
    /\ allPassed = TRUE
    /\ exitCode = -1
    /\ fatal = ""
    /\ procs = <<>>
    /\ dataLeft = 0
    /\ pin \in [text : Texts]
    /\ pout = Idle

\* parseStreamJson(stdout) on the text
Decode ==
    /\ pout.stage = "idle"
    /\ pout' = [stage |-> "decoded", parsed |-> parseStreamJson(pin.text)]
    /\ UNCHANGED <<runVars, pin>>

\* a spawnClaude closure whose child has written the text
ProcWith(text) == [NewProc(TRUE) EXCEPT !.stdout = text]

\* the promise of an invocation that captured the text and failed: a non-zero
\* exit, a timeout, or (having captured nothing) a failed start
FailedOutcome(text, failure) ==
    CASE failure = "exit" -> OnClose(ProcWith(text), Exited(1)).promise
      [] failure = "timeout" -> OnTimeout(ProcWith(text)).promise
      [] failure = "spawn" -> OnError(NewProc(FALSE)).promise

\* the targets a manifest can name; "" stands for a manifest without the key
EvalSkills == {"", "s1"}
EvalAgents == {"", "a1"}

\* runTest on the text for a test case and a pair of targets, once after a
\* success and once after a failure of spawnClaude that captured the same text
EvaluateBoth ==
    /\ pout.stage = "decoded"
    /\ \E failure \in {"exit", "timeout", "spawn"}, test \in EvalTests,
          skill \in EvalSkills, agent \in EvalAgents :
          /\ failure = "spawn" => pin.text = <<>>
          /\ pout' = [stage |-> "evaluated",
                      failure |-> failure,
                      test |-> test, skill |-> skill, agent |-> agent,
                      ok |-> runTest(test, skill, agent,
                                     OnClose(ProcWith(pin.text), Exited(0)).promise),
                      failed |-> runTest(test, skill, agent,
                                         FailedOutcome(pin.text, failure))]
    /\ UNCHANGED <<runVars, pin>>

NextPure == Decode \/ EvaluateBoth

SpecPure == InitPure /\ [][NextPure]_vars

-----------------------------------------------------------------------------
(* The decoder on texts whose event lines have blank and malformed lines   *)
(* between them: parseStreamJson on such a text and on the event lines     *)
(* alone.                                                                  *)

\* the events of the valid lines
CoreEvents == {"init", "skill", "nullblock"}

\* the lines the loop skips: empty, blanks only, text that is no JSON
SkippedLines == {<<>>, <<SP>>, <<BAD>>}

\* the skipped lines that precede one event line
GapFills == UNION {[1..k -> SkippedLines] : k \in 0..MaxGap}

\* the event lines of a text, and whether the text ends with a newline
LineInputs ==
    UNION {{[events |-> ev, newline |-> b] : ev \in [1..n -> CoreEvents], b \in BOOLEAN} :
           n \in 0..MaxEvents}

\* the text with the skipped lines gaps[i] before its i-th event line
WithGaps(in, gaps) == [events |-> in.events, gaps |-> gaps, newline |-> in.newline]

RECURSIVE InterleavedLines(_, _)
InterleavedLines(in, i) ==
    IF i > Len(in.events) THEN <<>>
    ELSE in.gaps[i] \o <<(<<Json(in.events[i])>>)>> \o InterleavedLines(in, i + 1)

RECURSIVE EventLines(_, _)
EventLines(in, i) ==
    IF i > Len(in.events) THEN <<>>
    ELSE <<(<<Json(in.events[i])>>)>> \o EventLines(in, i + 1)

\* the text with the skipped lines, and the text of the event lines alone
Interleaved(in) ==
    JoinLines(InterleavedLines(in, 1), 1) \o (IF in.newline THEN <<NL>> ELSE <<>>)
EventLinesOnly(in) == JoinLines(EventLines(in, 1), 1)

\* the test case and the target the verdicts are computed for
LinesTest == [id |-> 1, should_trigger |-> TRUE, expected_tools |-> <<"Skill">>]
LinesSkill == "s1"

InitLines ==
    /\ pc = "harness"
    /\ nFiles = 0
    /\ fileIdx = 0
    /\ manifest = NoManifest
    /\ testIdx = 0
    /\ results = <<>>
    /\ allResults = <<>>
    /\ allPassed = TRUE
    /\ exitCode = -1
    /\ fatal = ""
    /\ procs = <<>>
    /\ dataLeft = 0
    /\ pin \in LineInputs
    /\ pout = Idle

\* parseStreamJson and runTest on the text with skipped lines before each of
\* its event lines
DecodeInterleaved ==
    /\ pout.stage = "idle"
    /\ \E gaps \in [1..Len(pin.events) -> GapFills] :
          pout' = [stage |-> "interleaved",
                   gaps |-> gaps,
                   parsed |-> parseStreamJson(Interleaved(WithGaps(pin, gaps))),
                   result |-> runTest(LinesTest, LinesSkill, "",
                                      OnClose(ProcWith(Interleaved(WithGaps(pin, gaps))),
                                              Exited(0)).promise)]
    /\ UNCHANGED <<runVars, pin>>

\* parseStreamJson and runTest on the event lines alone
DecodeEventLines ==
    /\ pout.stage = "interleaved"
    /\ pout' = [stage |-> "both",
                gaps |-> pout.gaps,
                parsed |-> pout.parsed,
                result |-> pout.result,
                clean |-> parseStreamJson(EventLinesOnly(pin)),
                cleanResult |-> runTest(LinesTest, LinesSkill, "",
                                        OnClose(ProcWith(EventLinesOnly(pin)), Exited(0)).promise)]
    /\ UNCHANGED <<runVars, pin>>

NextLines == DecodeInterleaved \/ DecodeEventLines

SpecLines == InitLines /\ [][NextLines]_vars

-----------------------------------------------------------------------------
(* The invocation extractor on its own: collectToolUses on decoded events  *)
(* built from one object of every shape of type, name and input, placed    *)
(* under wrappers.                                                         *)

\* the values of the type, name and input fields; JUndef is a missing field
LeafTypes == {JUndef, JStr("tool_use"), JStr("text")}
LeafNames ==
    {JUndef, JStr(""), JStr("Read"), JStr("Skill"), JStr("Task"), JNum(7),
     JObj(<<F("tool", JStr("Read"))>>)}
LeafInputs ==
    {JUndef, JNull, JStr("s1"), JArr(<<JStr("s1")>>), JObj(<<>>),
     JObj(<<F("skill", JStr("s1"))>>), JObj(<<F("skill", JNum(5))>>),
     JObj(<<F("subagent_type", JStr("a1"))>>)}

Present(f) == f.v # JUndef

\* the object with those fields
Leaf(type, name, input) ==
    JObj(SelectSeq(<<F("type", type), F("name", name), F("input", input)>>, Present))

Leaves == {Leaf(ty, nm, inp) : ty \in LeafTypes, nm \in LeafNames, inp \in LeafInputs}

\* the objects placed under deep wrappers
DeepLeaves ==
    {ToolUse("Read", JNull), ToolUse("Skill", JObj(<<F("skill", JStr("s1"))>>)),
     JObj(<<F("type", JStr("text")), F("text", JStr("ok"))>>)}

\* one level around a value: a field of an object, an array, the input of a
\* tool_use object, an array after another tool_use object
WrapKinds == {"field", "array", "input", "sibling"}

WrapOne(kind, x) ==
    CASE kind = "field" -> JObj(<<F("wrapper", x)>>)
      [] kind = "array" -> JArr(<<x>>)
      [] kind = "input" -> ToolUse("Bash", x)
      [] kind = "sibling" -> JArr(<<ToolUse("Grep", JNull), x>>)

\* the value under the wrappers, wraps[1] the outermost
RECURSIVE Wrap(_, _, _)
Wrap(x, wraps, i) ==
    IF i > Len(wraps) THEN x ELSE WrapOne(wraps[i], Wrap(x, wraps, i + 1))

ExtractInputs ==
    {[leaf |-> l, wraps |-> w] : l \in Leaves, w \in {<<>>} \cup {<<k>> : k \in WrapKinds}}
    \cup UNION {{[leaf |-> l, wraps |-> w] : l \in DeepLeaves, w \in [1..n -> WrapKinds]} :
                n \in 0..MaxDepth}

InitExtract ==
    /\ pc = "harness"
    /\ nFiles = 0
    /\ fileIdx = 0
    /\ manifest = NoManifest
    /\ testIdx = 0
    /\ results = <<>>
    /\ allResults = <<>>
    /\ allPassed = TRUE
    /\ exitCode = -1
    /\ fatal = ""
    /\ procs = <<>>
    /\ dataLeft = 0
    /\ pin \in ExtractInputs
    /\ pout = Idle

\* collectToolUses(event, skillsInvoked, toolsUsed, agentsInvoked) on empty lists
Collect ==
    /\ pout.stage = "idle"
    /\ pout' = [stage |-> "collected",
                uses |-> collectToolUses(Wrap(pin.leaf, pin.wraps, 1))]
    /\ UNCHANGED <<runVars, pin>>

NextExtract == Collect

SpecExtract == InitExtract /\ [][NextExtract]_vars

-----------------------------------------------------------------------------
(* Properties                                                              *)

\* every TestResult produced so far, in order, with the targets of its manifest
RECURSIVE Tagged(_, _, _, _)
Tagged(rs, skill, agent, i) ==
    IF i > Len(rs) THEN <<>>
    ELSE <<[r |-> rs[i], skill |-> skill, agent |-> agent]>> \o Tagged(rs, skill, agent, i + 1)

RECURSIVE Flatten(_, _)
Flatten(all, i) ==
    IF i > Len(all) THEN <<>>
    ELSE Tagged(all[i].results, all[i].targetSkill, all[i].targetAgent, 1)
         \o Flatten(all, i + 1)

ResultsSoFar == Flatten(allResults, 1) \o Tagged(results, manifest.skill, manifest.agent, 1)

Settled(p) == p.promise.state # "pending"

\* an event that will settle the promise is still to come
SettlingEventPending(p) == p.timer = "pending" \/ (p.child = "failed" /\ ~p.errorSent)

TerminalOutcome(p) ==
    \/ p.promise.state = "resolved"
    \/ p.promise.state = "rejected" /\ p.promise.message.why \in {"exit", "timeout", "spawn"}

\* C1: every spawnClaude invocation delivers exactly one terminal outcome: while
\* its promise is pending an event that settles it is still to come, once settled
\* the outcome is one of the four kinds and no later event ('close' after the
\* timeout, 'close' after 'error') replaces it, and the TestResult built for the
\* invocation carries that outcome's error.
C1_ExactlyOneOutcome ==
    [][/\ \A i \in 1..Len(procs) :
             Settled(procs[i]) => procs'[i].promise = procs[i].promise
       /\ \A i \in 1..Len(procs') :
             /\ ~Settled(procs'[i]) => SettlingEventPending(procs'[i])
             /\ Settled(procs'[i]) => TerminalOutcome(procs'[i])
       /\ Len(ResultsSoFar') <= Len(procs')
       /\ \A k \in 1..Len(ResultsSoFar') :
             /\ Settled(procs'[k])
             /\ ResultsSoFar'[k].r.error =
                   (IF procs'[k].promise.state = "resolved" THEN NoError
                    ELSE procs'[k].promise.message)]_vars

\* a 'close' arrived after the timeout had delivered the outcome, and the result
\* of that invocation is recorded
C1_Witness ==
    \E i \in 1..Len(procs) :
        /\ procs[i].promise.message.why = "timeout"
        /\ procs[i].child = "closed"
        /\ ~procs[i].status.signal /\ procs[i].status.code = 1
        /\ Len(ResultsSoFar) >= i

\* C2: at no point are two child processes alive: the child of a test case has
\* terminated before the child of the next test case is spawned.
C2_OneChildAtATime ==
    Cardinality({i \in 1..Len(procs) : procs[i].child = "running"}) <= 1

\* C3: for a child that closed before the timeout, spawnClaude resolved if and
\* only if the child exited with status 0; a close without exit status (the
\* child was ended by a signal) is a failure.
C3_SuccessIffExitZero ==
    \A i \in 1..Len(procs) :
        (procs[i].status.closed /\ procs[i].timer = "cleared" /\ ~procs[i].errorSent)
        => (procs[i].promise.state = "resolved"
            <=> (~procs[i].status.signal /\ procs[i].status.code = 0))

\* the captured texts that hold one valid init event and nothing else that decodes
InitThenHung == {<<Json("init"), NL>>, <<Json("init"), NL, FirstHalf("skill")>>}

\* the verdict runTest computes from empty invocation sets
VerdictOfEmptySets(t) ==
    /\ t.r.toolsUsed = <<>> /\ t.r.skillsInvoked = <<>> /\ t.r.agentsInvoked = <<>>
    /\ ~t.r.triggered /\ ~t.r.agentTriggered
    /\ t.r.skillPass = (t.skill = "" \/ ~t.r.should_trigger)
    /\ t.r.agentPass = (t.agent = "" \/ ~t.r.should_trigger)
    /\ t.r.toolsPass = ~(t.r.should_trigger /\ t.r.expected_tools # <<>>)
    /\ t.r.pass = (t.r.skillPass /\ t.r.agentPass /\ t.r.toolsPass)

TimeoutResultsDecoded ==
    \A k \in 1..Len(ResultsSoFar) :
        (ResultsSoFar[k].r.error.why = "timeout" /\ procs[k].promise.stdout \in InitThenHung)
        => /\ Len(ResultsSoFar[k].r.transcript) = 1
           /\ ResultsSoFar[k].r.transcript[1].type = "init"
           /\ ResultsSoFar[k].r.transcript[1].model = JStr("haiku")
           /\ ResultsSoFar[k].r.transcript[1].toolCount = JNum(2)
           /\ ResultsSoFar[k].r.transcript[1].skillCount = JNum(1)
           /\ VerdictOfEmptySets(ResultsSoFar[k])

\* C4: when the timer fires the child is sent the termination signal and the
\* promise is rejected as a timeout carrying exactly the stdout and stderr
\* accumulated so far; runTest decodes that text, so after one valid init event
\* and a hang the transcript is that Init entry, the three sets are empty and the
\* verdict is the one computed from empty sets.
C4_TimeoutCarriesPartialOutput ==
    [][/\ \A i \in 1..Len(procs) :
             (procs[i].timer = "pending" /\ procs'[i].timer = "fired")
             => /\ procs'[i].killed
                /\ procs'[i].promise.state = "rejected"
                /\ procs'[i].promise.message.why = "timeout"
                /\ procs'[i].promise.stdout = procs[i].stdout
                /\ procs'[i].promise.stderr = procs[i].stderr
       /\ TimeoutResultsDecoded']_vars

\* a child wrote one init event and hung; the result of its timeout is recorded
C4_Witness ==
    \E k \in 1..Len(ResultsSoFar) :
        /\ ResultsSoFar[k].r.error.why = "timeout"
        /\ procs[k].promise.stdout = <<Json("init"), NL>>
        /\ procs[k].killed
        /\ Len(ResultsSoFar[k].r.transcript) = 1

\* C5: once the promise has settled the timer is no longer pending, and the
\* termination signal is sent only by a timer that fired while the promise was
\* pending: never to a child whose invocation completed or failed to start.
C5_TimerCancelled ==
    \A i \in 1..Len(procs) :
        /\ Settled(procs[i]) => procs[i].timer # "pending"
        /\ procs[i].killed
           => (procs[i].timer = "fired" /\ procs[i].promise.message.why = "timeout")

\* invocations have ended by a failed start and by a normal close, timers cleared
C5_Witness ==
    /\ \E i \in 1..Len(procs) :
          /\ procs[i].promise.message.why = "spawn"
          /\ procs[i].child = "closed"
          /\ procs[i].timer = "cleared"
    /\ \E i \in 1..Len(procs) :
          /\ procs[i].promise.state = "resolved"
          /\ procs[i].timer = "cleared"

AllPass == \A k \in 1..Len(ResultsSoFar) : ResultsSoFar[k].r.pass

\* C6 as stated: the exit code is 0 if and only if every test case of every
\* processed manifest has pass = true.
C6_ExitZeroIffAllPass == pc = "done" => (exitCode = 0 <=> AllPass)

\* C6 amended: in a run that reaches the reporting step the exit code is 0 if and
\* only if every TestResult has pass = true; in every run a TestResult with
\* pass = false makes the exit code non-zero; the all-passed flag is the
\* conjunction of pass over the results produced so far.
C6_ExitCodeAmended ==
    /\ allPassed = AllPass
    /\ (pc = "done" /\ fatal = "") => (exitCode = 0 <=> AllPass)
    /\ (pc = "done" /\ ~AllPass) => exitCode # 0

\* a failing result followed by a passing one: the run ends with a non-zero code
C6_Witness ==
    /\ pc = "done" /\ fatal = "" /\ exitCode = 1
    /\ Len(ResultsSoFar) = 2
    /\ ~ResultsSoFar[1].r.pass
    /\ ResultsSoFar[2].r.pass

\* C7: a run that ends with a manifest structural error (no matched file, a
\* manifest without tests) has spawned no child for any test case.
C7_NoTestBeforeFatal == fatal \in {"nomatch", "manifest"} => procs = <<>>

\* C8: when every matched manifest is valid the run ends after the reporting
\* step, with one TestResult per test case, whatever the children did and wrote.
C8_RunCompletes ==
    (pc = "done" /\ fileIdx = nFiles /\ fatal \notin {"nomatch", "manifest"})
    => /\ fatal = ""
       /\ Len(allResults) = nFiles
       /\ Len(ResultsSoFar) = Len(procs)

\* C9: parseStreamJson never throws on well-formed JSON of an unexpected shape.
C9_DecodeNeverThrows == pout.stage = "decoded" => ~pout.parsed.threw

\* C10: for a fixed test case and targets, an invocation that failed and one that
\* succeeded with the same captured stdout get the same verdicts, invocation sets
\* and transcript; only the attached error differs.
C10_FailureKeepsVerdict ==
    pout.stage = "evaluated"
    => /\ pout.failed.threw = pout.ok.threw
       /\ pout.ok.error = NoError
       /\ pout.failed.error.why = pout.failure
       /\ ~pout.ok.threw
          => /\ pout.failed.triggered = pout.ok.triggered
             /\ pout.failed.agentTriggered = pout.ok.agentTriggered
             /\ pout.failed.skillPass = pout.ok.skillPass
             /\ pout.failed.agentPass = pout.ok.agentPass
             /\ pout.failed.toolsPass = pout.ok.toolsPass
             /\ pout.failed.pass = pout.ok.pass
             /\ pout.failed.toolsUsed = pout.ok.toolsUsed
             /\ pout.failed.skillsInvoked = pout.ok.skillsInvoked
             /\ pout.failed.agentsInvoked = pout.ok.agentsInvoked
             /\ pout.failed.transcript = pout.ok.transcript

\* a timed-out invocation whose partial output invoked the target skill passes
C10_Witness ==
    /\ pout.stage = "evaluated"
    /\ pout.failure = "timeout"
    /\ pout.skill = "s1" /\ pout.test.should_trigger
    /\ pout.failed.triggered
    /\ pout.failed.pass

\* the two TestResults the harness has built, when runTest returned them
Evaluated == IF pout.stage = "evaluated" THEN {pout.ok, pout.failed} ELSE {}

\* C11: every TestResult runTest returns has pass equal to the conjunction of
\* skillPass, agentPass and toolsPass, for every test case, every pair of targets
\* and every captured text.
C11_PassIsConjunction ==
    \A r \in Evaluated :
        ~r.threw => r.pass = (r.skillPass /\ r.agentPass /\ r.toolsPass)

\* the agent axis alone fails a result
C11_Witness ==
    /\ pout.stage = "evaluated"
    /\ pout.skill = "s1" /\ pout.agent = "a1"
    /\ ~pout.ok.threw
    /\ pout.ok.skillPass /\ pout.ok.toolsPass /\ ~pout.ok.agentPass
    /\ ~pout.ok.pass

\* name is an entry of the list of invoked names
Invoked(names, name) == \E i \in 1..Len(names) : names[i] = JStr(name)

\* C12: with a target skill configured, triggered holds exactly when the target
\* is among skillsInvoked and skillPass is (triggered = should_trigger); without
\* one, triggered is false and skillPass is true whatever was invoked.  The same
\* for agentTriggered and agentPass against agentsInvoked and the target agent.
C12_AxisVerdicts ==
    \A r \in Evaluated :
        ~r.threw =>
            /\ r.triggered = (pout.skill # "" /\ Invoked(r.skillsInvoked, pout.skill))
            /\ r.skillPass = (pout.skill = "" \/ r.triggered = r.should_trigger)
            /\ r.agentTriggered = (pout.agent # "" /\ Invoked(r.agentsInvoked, pout.agent))
            /\ r.agentPass = (pout.agent = "" \/ r.agentTriggered = r.should_trigger)

\* no target at all: a skill and no agent were invoked, the test expects a
\* trigger, and both axes pass
C12_Witness ==
    /\ pout.stage = "evaluated"
    /\ pout.skill = "" /\ pout.agent = ""
    /\ pout.test.should_trigger
    /\ ~pout.ok.threw
    /\ Invoked(pout.ok.skillsInvoked, "s1")
    /\ pout.ok.agentsInvoked = <<>>
    /\ ~pout.ok.triggered /\ pout.ok.skillPass
    /\ ~pout.ok.agentTriggered /\ pout.ok.agentPass

\* the expected tools of the test case of the harness, [] when the key is omitted
ExpectedOf(test) == IF "expected_tools" \in DOMAIN test THEN test.expected_tools ELSE <<>>

\* C13: toolsPass is false exactly when expected_tools is not empty,
\* should_trigger is true and some expected tool is not among toolsUsed; tools
\* used beyond the expected ones, a should_trigger of false, and an empty or
\* omitted expected_tools all leave it true.
C13_ToolsSubset ==
    \A r \in Evaluated :
        ~r.threw =>
            (r.toolsPass <=>
                ~(/\ ExpectedOf(pout.test) # <<>>
                  /\ pout.test.should_trigger
                  /\ \E k \in 1..Len(ExpectedOf(pout.test)) :
                        ~Invoked(r.toolsUsed, ExpectedOf(pout.test)[k])))

\* both expected tools were used, and others besides
C13_Witness ==
    /\ pout.stage = "evaluated"
    /\ pout.test.should_trigger
    /\ ExpectedOf(pout.test) = <<"Read", "Bash">>
    /\ ~pout.ok.threw
    /\ Len(pout.ok.toolsUsed) = 3
    /\ pout.ok.toolsPass

\* the names pushed on the three lists while the lines of the text were decoded,
\* before the duplicates are removed
Discovered ==
    ParseLines(Split(pin.text), 1,
               [threw |-> FALSE, transcript |-> <<>>, uses |-> NoUses]).uses

FirstAt(xs, x) == CHOOSE i \in 1..Len(xs) : xs[i] = x /\ \A j \in 1..(i - 1) : xs[j] # x

\* list holds each name of found once, in the order the names first occur in found
FirstOccurrences(list, found) ==
    /\ \A i, j \in 1..Len(list) : i # j => list[i] # list[j]
    /\ {list[i] : i \in 1..Len(list)} = {found[i] : i \in 1..Len(found)}
    /\ \A i, j \in 1..Len(list) : i < j => FirstAt(found, list[i]) < FirstAt(found, list[j])

\* C14: each of toolsUsed, skillsInvoked and agentsInvoked that parseStreamJson
\* returns holds no name twice, holds exactly the names discovered at least once
\* for its kind, and lists them in the order of their first discovery.
C14_NoDuplicateNames ==
    (pout.stage = "decoded" /\ ~pout.parsed.threw)
    => /\ FirstOccurrences(pout.parsed.toolsUsed, Discovered.tools)
       /\ FirstOccurrences(pout.parsed.skillsInvoked, Discovered.skills)
       /\ FirstOccurrences(pout.parsed.agentsInvoked, Discovered.agents)

\* the ids of the results are 1, 2, ... in that order
IdsInOrder(rs) == \A k \in 1..Len(rs) : rs[k].id = k

\* C15: results are appended in the order of the test cases of their manifest and
\* manifests are processed in the order they were matched: a step adds at most
\* one result, at the end, for the test case the inner loop is at; the results of
\* a manifest are those of a prefix of its test cases; a manifest's results are
\* filed only when complete, as the entry of the file the outer loop is at.
C15_ResultsInOrder ==
    [][/\ \/ ResultsSoFar' = ResultsSoFar
          \/ /\ pc = "await"
             /\ Len(ResultsSoFar') = Len(ResultsSoFar) + 1
             /\ SubSeq(ResultsSoFar', 1, Len(ResultsSoFar)) = ResultsSoFar
             /\ ResultsSoFar'[Len(ResultsSoFar')].r.id = manifest.tests[testIdx].id
             /\ testIdx = Len(results) + 1
       /\ IdsInOrder(results') /\ Len(results') <= Len(manifest'.tests)
       /\ \A j \in 1..Len(allResults') : IdsInOrder(allResults'[j].results)
       /\ fileIdx' \in {fileIdx, fileIdx + 1}
       /\ \/ allResults' = allResults
          \/ /\ allResults' = Append(allResults, allResults'[Len(allResults')])
             /\ Len(allResults') = fileIdx
             /\ Len(allResults'[Len(allResults')].results) = Len(manifest'.tests)]_vars

\* two manifests of one test case each have been processed, in that order
C15_Witness ==
    /\ Len(allResults) = 2
    /\ Len(allResults[1].results) = 1
    /\ Len(allResults[2].results) = 1
    /\ Len(ResultsSoFar) = 2

\* what the events of the valid lines contribute, in line order
RECURSIVE EntriesOfEvents(_, _)
EntriesOfEvents(events, i) ==
    IF i > Len(events) THEN <<>>
    ELSE extractTranscriptEntry(EventValue(events[i])).entries \o EntriesOfEvents(events, i + 1)

RECURSIVE UsesOfEvents(_, _)
UsesOfEvents(events, i) ==
    IF i > Len(events) THEN NoUses
    ELSE JoinUses(collectToolUses(EventValue(events[i])), UsesOfEvents(events, i + 1))

\* C16: blank lines and lines that are no JSON have no effect: the text with
\* such lines before and between its event lines decodes to the same
\* transcript and invocation sets, and gets the same verdicts, as the event
\* lines alone, and when the decoder returns, every event is reflected in line
\* order.
C16_MalformedLinesSkipped ==
    pout.stage = "both"
    => /\ pout.parsed = pout.clean
       /\ pout.result = pout.cleanResult
       /\ ~pout.parsed.threw
          => /\ pout.parsed.transcript = EntriesOfEvents(pin.events, 1)
             /\ pout.parsed.toolsUsed = Dedup(UsesOfEvents(pin.events, 1).tools)
             /\ pout.parsed.skillsInvoked = Dedup(UsesOfEvents(pin.events, 1).skills)
             /\ pout.parsed.agentsInvoked = Dedup(UsesOfEvents(pin.events, 1).agents)

\* a malformed line between an init event and a skill event: both are reflected
C16_Witness ==
    /\ pout.stage = "both"
    /\ pin.events = <<"init", "skill">>
    /\ pout.gaps[2] = <<(<<BAD>>)>>
    /\ Len(pout.parsed.transcript) = 3
    /\ pout.parsed.transcript[1].type = "init"
    /\ pout.parsed.transcript[3].type = "tool_use"
    /\ Invoked(pout.parsed.skillsInvoked, "s1")
    /\ pout.result.pass

\* every array and object reachable from v through fields and elements, v
\* included, parents before children and children in order
RECURSIVE Reachable(_)
RECURSIVE ReachableFromEach(_, _)
Reachable(v) ==
    IF v.t \notin {"arr", "obj"} THEN <<>>
    ELSE <<v>> \o ReachableFromEach(IF v.t = "arr" THEN v.items
                                    ELSE [i \in 1..Len(v.fields) |-> v.fields[i].v], 1)

ReachableFromEach(vs, i) ==
    IF i > Len(vs) THEN <<>> ELSE Reachable(vs[i]) \o ReachableFromEach(vs, i + 1)

IsString(v) == v.t = "str"

\* a tool_use object with a non-empty name string
NamedToolUse(v) ==
    /\ v.t = "obj"
    /\ \E i \in 1..Len(v.fields) : v.fields[i] = F("type", JStr("tool_use"))
    /\ \E i \in 1..Len(v.fields) :
          v.fields[i].k = "name" /\ v.fields[i].v.t = "str" /\ v.fields[i].v.s # ""

NameOf(v) == v.fields[CHOOSE i \in 1..Len(v.fields) : v.fields[i].k = "name"].v

NamesOf(vs) == [i \in 1..Len(vs) |-> NameOf(vs[i])]

\* C17: the extractor records the name of every tool_use object with a
\* non-empty name that is reachable from the event through object fields and
\* array elements at any depth, in the order it meets them; a match does not end
\* the search, below the match or beside it.
C17_EveryReachableToolUse ==
    pout.stage = "collected"
    => SelectSeq(pout.uses.tools, IsString)
         = NamesOf(SelectSeq(Reachable(Wrap(pin.leaf, pin.wraps, 1)), NamedToolUse))

\* a tool_use five levels down, under the input of one tool_use that matched and
\* beside another, with an array directly in an array on the way: all three are
\* recorded
C17_Witness ==
    /\ pout.stage = "collected"
    /\ pin.wraps = <<"input", "array", "array", "sibling", "field">>
    /\ pin.leaf = ToolUse("Read", JNull)
    /\ pout.uses.tools = <<JStr("Bash"), JStr("Grep"), JStr("Read")>>

NonEmptyString(v) == v.t = "str" /\ v.s # ""

\* C18: only a non-empty name string of a tool_use object is recorded as a tool,
\* only a string input.skill under the name Skill as a skill, only a string
\* input.subagent_type under the name Task as an agent; an object without name or
\* with the name "" adds nothing; when input is no object or lacks the
\* sub-field, the tool name alone is recorded.
C18_OnlyNamedStrings ==
    pout.stage = "collected"
    => /\ \A i \in 1..Len(pout.uses.tools) : NonEmptyString(pout.uses.tools[i])
       /\ \A i \in 1..Len(pout.uses.skills) : IsString(pout.uses.skills[i])
       /\ \A i \in 1..Len(pout.uses.agents) : IsString(pout.uses.agents[i])
       /\ pin.wraps = <<>>
          => /\ Get(pin.leaf, "type") # JStr("tool_use") => pout.uses = NoUses
             /\ Get(pin.leaf, "name") \in {JUndef, JStr("")} => pout.uses = NoUses
             /\ (Get(pin.leaf, "type") = JStr("tool_use")
                 /\ NonEmptyString(Get(pin.leaf, "name")))
                => /\ pout.uses.tools = <<Get(pin.leaf, "name")>>
                   /\ pout.uses.skills # <<>>
                      => /\ Get(pin.leaf, "name") = JStr("Skill")
                         /\ pout.uses.skills = <<Get(Get(pin.leaf, "input"), "skill")>>
                   /\ pout.uses.agents # <<>>
                      => /\ Get(pin.leaf, "name") = JStr("Task")
                         /\ pout.uses.agents = <<Get(Get(pin.leaf, "input"), "subagent_type")>>
                   /\ (Get(pin.leaf, "input").t # "obj"
                       \/ Get(Get(pin.leaf, "input"), "skill") = JUndef)
                      => pout.uses.skills = <<>>
                   /\ (Get(pin.leaf, "input").t # "obj"
                       \/ Get(Get(pin.leaf, "input"), "subagent_type") = JUndef)
                      => pout.uses.agents = <<>>

====
